---- MODULE Spec2Model ----
(***************************************************************************)
(* Model of lib/iotransit-wb.js: the IoTransitWB connection manager for    *)
(* the IoTransit WebSocket Bridge.  The manager is an EventEmitter that    *)
(* owns a WebSocketClient (this.wb), registers handlers for the transport  *)
(* events and exposes connect(), disconnect() and sendWB().                *)
(***************************************************************************)
EXTENDS Integers, Sequences, FiniteSets, TLC

(***************************************************************************)
(* Bounds of the model.                                                    *)
(***************************************************************************)
\* number of connect() calls by the caller (each creates a WebSocketClient)
MaxClients == 2
\* number of transport connections opened over the life of the manager
MaxConns == 3

(***************************************************************************)
(* JavaScript values.  A value carries its type, a scalar rendering and,   *)
(* for an array, its items.                                                *)
(***************************************************************************)
Undef == [ty |-> "undefined", s |-> "", items |-> <<>>]
Null == [ty |-> "null", s |-> "", items |-> <<>>]
Str(x) == [ty |-> "string", s |-> x, items |-> <<>>]
Num(x) == [ty |-> "number", s |-> x, items |-> <<>>]
Bool(b) == [ty |-> "boolean", s |-> IF b THEN "true" ELSE "false", items |-> <<>>]
Arr(xs) == [ty |-> "array", s |-> "", items |-> xs]

\* ToBoolean, as used by `||`, `&&` and `if (...)`
Truthy(v) ==
    CASE v.ty = "undefined" -> FALSE
      [] v.ty = "null" -> FALSE
      [] v.ty = "string" -> v.s # ""
      [] v.ty = "number" -> v.s # "0"
      [] v.ty = "boolean" -> v.s = "true"
      [] OTHER -> TRUE

\* An object is a function from its own property names to values.
EmptyObj == [k \in {} |-> Undef]
HasOwnProperty(o, k) == k \in DOMAIN o
Get(o, k) == IF k \in DOMAIN o THEN o[k] ELSE Undef
Put(o, k, v) == [x \in (DOMAIN o) \cup {k} |-> IF x = k THEN v ELSE o[x]]

(***************************************************************************)
(* Defaults (module constants of the source).                              *)
(***************************************************************************)
AUTH_USER == Str("api1")
AUTH_PASS == Str("external")
WEBSOCKETBRIDGE_URI == Str("127.0.0.1")
WEBSOCKETBRIDGE_PORT == Num("444")
WEBSOCKETBRIDGE_SUBPROTOCOL == Str("wb.iotransit.net")
WEBSOCKETBRIDGE_ORIGIN == Str("bridge")
AUTO_RECONNECT == Bool(TRUE)
RECONNECTION_TIMER == Num("5000")
SECURE_WEBSOCKET == Bool(TRUE)

(***************************************************************************)
(* constructor (options).  The argument is [v, o]: v is the value passed   *)
(* (its type decides the branch) and o its own properties when it is an    *)
(* object.  The result is [thrown, options]; thrown = "" on success.       *)
(***************************************************************************)
\* a merge that replaces the supplied value by the default
OrDefault_Always(o, k, d) == d

OrDefault(o, k, d) == IF Truthy(Get(o, k)) THEN Get(o, k) ELSE d
OwnOrDefault(o, k, d) == IF HasOwnProperty(o, k) THEN o[k] ELSE d

\* an acceptTags step that ignores a string `accepts`
AcceptTagsStep_StringIgnored(o) ==
    IF HasOwnProperty(o, "accepts") /\ o["accepts"].ty = "array"
    THEN Put(o, "acceptTags", o["accepts"])
    ELSE Put(o, "acceptTags", Arr(<<Get(o, "appletId")>>))

AcceptTagsStep(o) ==
    IF ~HasOwnProperty(o, "accepts")
    THEN Put(o, "acceptTags", Arr(<<Get(o, "appletId")>>))
    ELSE IF o["accepts"].ty = "string"
         THEN Put(o, "acceptTags", Arr(<<o["accepts"]>>))
         ELSE IF o["accepts"].ty = "array"
              THEN Put(o, "acceptTags", o["accepts"])
              ELSE o

DefaultsStep(o) ==
    LET o1 == Put(o, "authUser", OrDefault(o, "authUser", AUTH_USER))
        o2 == Put(o1, "authPass", OrDefault(o1, "authPass", AUTH_PASS))
        o3 == Put(o2, "websocketBridgeUri", OrDefault(o2, "websocketBridgeUri", WEBSOCKETBRIDGE_URI))
        o4 == Put(o3, "websocketBridgePort", OrDefault(o3, "websocketBridgePort", WEBSOCKETBRIDGE_PORT))
        o5 == Put(o4, "websocketBridgeSubProtocol", OrDefault(o4, "websocketBridgeSubProtocol", WEBSOCKETBRIDGE_SUBPROTOCOL))
        o6 == Put(o5, "websocketBridgeOrigin", OrDefault(o5, "websocketBridgeOrigin", WEBSOCKETBRIDGE_ORIGIN))
        o7 == Put(o6, "autoReconnect", OwnOrDefault(o6, "autoReconnect", AUTO_RECONNECT))
        o8 == Put(o7, "reconnectionTimer", OrDefault(o7, "reconnectionTimer", RECONNECTION_TIMER))
    IN  Put(o8, "secureWebSocket", OwnOrDefault(o8, "secureWebSocket", SECURE_WEBSOCKET))

\* a constructor that does not check for appletId in an object
Constructor_NoIdentityCheck(arg) ==
    IF arg.v.ty \in {"null", "undefined"}
    THEN [thrown |-> "mandatory appletId not passed to constructor", options |-> EmptyObj]
    ELSE IF arg.v.ty \in {"object", "array"}
         THEN [thrown |-> "", options |-> DefaultsStep(AcceptTagsStep(arg.o))]
         ELSE IF arg.v.ty = "string"
              THEN [thrown |-> "",
                    options |-> DefaultsStep(AcceptTagsStep(Put(EmptyObj, "appletId", arg.v)))]
              ELSE [thrown |-> "TypeError", options |-> EmptyObj]

Constructor(arg) ==
    IF arg.v.ty \in {"null", "undefined"}
    THEN [thrown |-> "mandatory appletId not passed to constructor", options |-> EmptyObj]
    ELSE IF arg.v.ty \in {"object", "array"}
         THEN IF ~HasOwnProperty(arg.o, "appletId")
              THEN [thrown |-> "mandatory appletId not provided in config", options |-> arg.o]
              ELSE [thrown |-> "", options |-> DefaultsStep(AcceptTagsStep(arg.o))]
         ELSE IF arg.v.ty = "string"
              THEN [thrown |-> "",
                    options |-> DefaultsStep(AcceptTagsStep(Put(EmptyObj, "appletId", arg.v)))]
              ELSE \* this.options was never assigned: this.options.hasOwnProperty throws
                   [thrown |-> "TypeError", options |-> EmptyObj]

\* the inputs new IoTransitWB(...) is given in the lifecycle model
StringInput(x) == [v |-> Str(x), o |-> EmptyObj]
ObjectInput(props) == [v |-> [ty |-> "object", s |-> "", items |-> <<>>], o |-> props]

Inputs ==
    { StringInput("lights"),
      ObjectInput(("appletId" :> Str("lights"))
                  @@ ("accepts" :> Arr(<<Str("lights"), Str("alarm")>>))
                  @@ ("autoReconnect" :> Bool(FALSE))
                  @@ ("secureWebSocket" :> Bool(FALSE))
                  @@ ("websocketBridgePort" :> Num("8080"))
                  @@ ("authUser" :> Str("u1"))) }

\* further configurations that leave autoReconnect on, for the retry model
RetryInputs ==
    { ObjectInput(("appletId" :> Str("lights")) @@ ("secureWebSocket" :> Bool(FALSE))),
      ObjectInput(("appletId" :> Str("lights"))
                  @@ ("websocketBridgeUri" :> Str("bridge.local"))
                  @@ ("reconnectionTimer" :> Num("1000"))),
      ObjectInput(("appletId" :> Str("lights"))
                  @@ ("autoReconnect" :> Bool(TRUE))
                  @@ ("websocketBridgeOrigin" :> Str("applet"))) }

\* the arguments of the configuration model: no argument, scalars, and
\* records that combine an identity, an `accepts` and a set of other fields
ValueInput(v) == [v |-> v, o |-> EmptyObj]
IdentityParts ==
    { EmptyObj,
      "appletId" :> Str("lights"),
      "appletId" :> Str(""),
      "appletId" :> Num("7") }
AcceptsParts ==
    { EmptyObj,
      "accepts" :> Str("alarm"),
      "accepts" :> Arr(<<Str("lights"), Str("alarm")>>),
      "accepts" :> Arr(<<>>),
      "accepts" :> Num("42") }
FieldParts ==
    { EmptyObj,
      "authUser" :> Str("u1"),
      ("authUser" :> Str("u1")) @@ ("authPass" :> Str("pw"))
          @@ ("websocketBridgeUri" :> Str("bridge.local"))
          @@ ("websocketBridgePort" :> Num("8080"))
          @@ ("websocketBridgeSubProtocol" :> Str("wb2"))
          @@ ("websocketBridgeOrigin" :> Str("applet"))
          @@ ("autoReconnect" :> Bool(FALSE))
          @@ ("reconnectionTimer" :> Num("1000"))
          @@ ("secureWebSocket" :> Bool(FALSE)),
      ("websocketBridgePort" :> Num("0")) @@ ("websocketBridgeUri" :> Str("bridge.local")),
      ("authPass" :> Str("")) @@ ("autoReconnect" :> Bool(FALSE)),
      ("reconnectionTimer" :> Num("0")) @@ ("secureWebSocket" :> Undef),
      ("websocketBridgeSubProtocol" :> Str("")) @@ ("websocketBridgeOrigin" :> Null) }
ConfigInputs ==
    { ValueInput(Undef), ValueInput(Null), ValueInput(Num("42")),
      StringInput("lights"), StringInput("") }
    \cup { ObjectInput(i @@ a @@ f) : i \in IdentityParts, a \in AcceptsParts, f \in FieldParts }

(***************************************************************************)
(* JSON.stringify and JSON.parse on the values the manager exchanges.      *)
(* The wire text is a sequence of tokens.                                  *)
(***************************************************************************)
RECURSIVE TokensOf(_)
RECURSIVE ItemTokens(_)
ItemTokens(xs) ==
    IF xs = <<>> THEN <<>>
    ELSE (IF Head(xs).ty = "undefined" THEN <<"null">> ELSE TokensOf(Head(xs)))
         \o ItemTokens(Tail(xs))
TokensOf(v) ==
    CASE v.ty = "string" -> <<"\"", v.s, "\"">>
      [] v.ty = "array" -> <<"[">> \o ItemTokens(v.items) \o <<"]">>
      [] v.ty = "null" -> <<"null">>
      [] OTHER -> <<v.s>>

\* a property whose value is undefined is left out by JSON.stringify
Member(k, v) == IF v.ty = "undefined" THEN <<>> ELSE <<k>> \o TokensOf(v)

\* JSON.stringify of a message object {t, p}
Stringify(o) == <<"{">> \o Member("t", Get(o, "t")) \o Member("p", Get(o, "p")) \o <<"}">>

\* JSON.parse of an object whose members are strings: "{" (key " s ")* "}".
\* The result is [ok, obj]; ok = FALSE stands for the SyntaxError.
RECURSIVE ParseMembers(_, _)
ParseMembers(toks, acc) ==
    IF toks = <<"}">> THEN [ok |-> TRUE, obj |-> acc]
    ELSE IF Len(toks) >= 5 /\ toks[2] = "\"" /\ toks[4] = "\""
         THEN ParseMembers(SubSeq(toks, 5, Len(toks)), Put(acc, toks[1], Str(toks[3])))
         ELSE [ok |-> FALSE, obj |-> EmptyObj]
JSONparse(toks) ==
    IF Len(toks) >= 2 /\ toks[1] = "{"
    THEN ParseMembers(Tail(toks), EmptyObj)
    ELSE [ok |-> FALSE, obj |-> EmptyObj]

(***************************************************************************)
(* State.                                                                  *)
(*  options   this.options, the configuration the constructor built        *)
(*  input     the argument new IoTransitWB(...) was called with, as it was  *)
(*            at the call                                                  *)
(*  wb        this.wb: the index in clients of the current WebSocketClient,*)
(*            0 while this.wb is undefined                                 *)
(*  clients   the WebSocketClient objects created by connect(): the        *)
(*            connection property set on it, the connection attempts it    *)
(*            has in flight (their targets) and the webSocketPrefix the    *)
(*            handlers registered on it close over                         *)
(*  conns     the transport connections opened so far: the client whose    *)
(*            'connect' event delivered it, its connected flag and the     *)
(*            first frame written to it (<<>> before any write)            *)
(*  websocketBridgeConnected   this.websocketBridgeConnected               *)
(*  timers    the pending setTimeout callbacks, oldest first               *)
(*  last, fx  the operation or event handled last and the effects it had,  *)
(*            in the order the handler produced them                       *)
(*  origTarget   the target of the first connection attempt                *)
(***************************************************************************)
VARIABLES options, input, wb, clients, conns, websocketBridgeConnected, timers, last, fx,
          origTarget

vars == <<options, input, wb, clients, conns, websocketBridgeConnected, timers, last, fx, origTarget>>

(***************************************************************************)
(* Effects of a handler.                                                   *)
(***************************************************************************)
Effect(k, on, id, ev, data, rec) ==
    [k |-> k, on |-> on, id |-> id, ev |-> ev, data |-> data, rec |-> rec]
\* connection.send / connection.sendUTF on connection c
EWrite(c, frame) == Effect("write", "connection", c, "", frame, EmptyObj)
\* this.emit(ev, reason) with this = the manager
EEmit(ev, reason) == Effect("emit", "manager", 0, ev, <<reason>>, EmptyObj)
\* this.emit('wbMessage', rcvMsg)
EEmitRecord(ev, rec) == Effect("emit", "manager", 0, ev, <<>>, rec)
\* this.emit(ev, reason) with this = the connection c
EEmitOnConnection(c, ev, reason) == Effect("emit", "connection", c, ev, <<reason>>, EmptyObj)
\* this.wb.connect(target) on client i
EAttempt(i, target) == Effect("attempt", "client", i, "", target, EmptyObj)
\* setTimeout(...)
ETimer == Effect("timer", "manager", 0, "", <<>>, EmptyObj)
\* an exception leaves the handler
EThrow(name) == Effect("throw", "manager", 0, name, <<>>, EmptyObj)
\* console.log
ELog == Effect("log", "console", 0, "", <<>>, EmptyObj)

Kinds(es, k) == {i \in 1..Len(es) : es[i].k = k}
Emits(es, ev) == {i \in 1..Len(es) : es[i].k = "emit" /\ es[i].on = "manager" /\ es[i].ev = ev}
Throws(es) == Kinds(es, "throw") # {}

RECURSIVE WritesTo(_, _)
WritesTo(es, c) ==
    IF es = <<>> THEN <<>>
    ELSE (IF Head(es).k = "write" /\ Head(es).id = c THEN <<Head(es).data>> ELSE <<>>)
         \o WritesTo(Tail(es), c)

FirstOf(frames) == IF frames = <<>> THEN <<>> ELSE Head(frames)

(***************************************************************************)
(* The target of a connection attempt: the URL, the subprotocol and the    *)
(* origin, as the three places that call this.wb.connect compute them.     *)
(***************************************************************************)
JSToString(v) ==
    CASE v.ty = "undefined" -> "undefined"
      [] v.ty = "null" -> "null"
      [] OTHER -> v.s

WebSocketPrefix == IF Truthy(options["secureWebSocket"]) THEN "wss://" ELSE "ws://"

ConnectTarget(prefix) ==
    <<prefix, JSToString(options["websocketBridgeUri"]), ":",
      JSToString(options["websocketBridgePort"]), "/",
      JSToString(options["websocketBridgeSubProtocol"]),
      JSToString(options["websocketBridgeOrigin"])>>

FailedRetryTarget(prefix) ==
    <<prefix, JSToString(options["websocketBridgeUri"]), ":",
      JSToString(options["websocketBridgePort"]), "/",
      JSToString(options["websocketBridgeSubProtocol"]),
      JSToString(options["websocketBridgeOrigin"])>>

\* a retry that builds its URL with the plain scheme instead of webSocketPrefix
CloseRetryTarget_PlainScheme(prefix) ==
    <<"ws://", JSToString(options["websocketBridgeUri"]), ":",
      JSToString(options["websocketBridgePort"]), "/",
      JSToString(options["websocketBridgeSubProtocol"]),
      JSToString(options["websocketBridgeOrigin"])>>

CloseRetryTarget(prefix) ==
    <<prefix, JSToString(options["websocketBridgeUri"]), ":",
      JSToString(options["websocketBridgePort"]), "/",
      JSToString(options["websocketBridgeSubProtocol"]),
      JSToString(options["websocketBridgeOrigin"])>>

\* a pending timer: the handler that scheduled it and the prefix it closes over
Timer(from, prefix) == [from |-> from, prefix |-> prefix]
TimerTarget(t) ==
    IF t.from = "close" THEN CloseRetryTarget(t.prefix) ELSE FailedRetryTarget(t.prefix)

\* a 'connectFailed' handler that schedules no retry
FailedReconnect_None(prefix) == <<>>

\* the timers the 'connectFailed' handler schedules
FailedReconnect(prefix) ==
    IF Truthy(options["autoReconnect"]) THEN <<Timer("connectFailed", prefix)>> ELSE <<>>

\* a 'close' handler that schedules the retry without reading autoReconnect
CloseReconnect_Always(prefix) == <<Timer("close", prefix)>>

\* the timers the 'close' handler schedules
CloseReconnect(prefix) ==
    IF Truthy(options["autoReconnect"]) THEN <<Timer("close", prefix)>> ELSE <<>>

TimerEffects(ts) == [i \in 1..Len(ts) |-> ETimer]

(***************************************************************************)
(* The handlers.                                                           *)
(***************************************************************************)
AuthRequest ==
    <<"{">> \o Member("t", Str("authapp")) \o <<"p", "{">>
    \o Member("user", options["authUser"])
    \o Member("pass", options["authPass"])
    \o Member("accept", Get(options, "acceptTags"))
    \o <<"}", "}">>

\* a 'connect' handler that announces the connection before authenticating
OnConnectEffects_EmitFirst(c) ==
    <<EEmit("connection", "websocket bridge connected"), EWrite(c, AuthRequest)>>

\* 'connect' handler: what it writes and emits for the new connection c
OnConnectEffects(c) ==
    <<EWrite(c, AuthRequest), EEmit("connection", "websocket bridge connected")>>

\* 'connectFailed' handler
OnConnectFailedEffects(prefix) ==
    <<EEmit("connectionFailed", "Error: connect ECONNREFUSED")>>
    \o TimerEffects(FailedReconnect(prefix))

\* 'error' handler of connection c: a function expression, so `this` is the
\* connection the event is emitted on
OnErrorEffects(c) == <<EEmitOnConnection(c, "connectionError", "Error: read ECONNRESET")>>

\* 'close' handler
OnCloseEffects(prefix) ==
    <<EEmit("connectionClose", "websocket bridge connection closed")>>
    \o TimerEffects(CloseReconnect(prefix))

\* Array.prototype.indexOf (strict equality)
IndexOf(xs, v) ==
    IF \E i \in 1..Len(xs) : xs[i] = v
    THEN (CHOOSE i \in 1..Len(xs) : xs[i] = v /\ \A j \in 1..(i - 1) : xs[j] # v) - 1
    ELSE -1

\* a filter that forgets the broadcast tag
Accepted_NoBroadcast(rcvMsg) ==
    IndexOf(options["acceptTags"].items, Get(rcvMsg, "t")) # -1

Accepted(rcvMsg) ==
    \/ IndexOf(options["acceptTags"].items, Get(rcvMsg, "t")) # -1
    \/ Get(rcvMsg, "t") = Str("all")

\* 'message' handler
OnMessageEffects(message) ==
    IF message.type = "utf8"
    THEN LET parsed == JSONparse(message.utf8Data) IN
         IF ~parsed.ok THEN <<EThrow("SyntaxError")>>
         ELSE IF Get(options, "acceptTags").ty # "array" THEN <<EThrow("TypeError")>>
         ELSE IF Accepted(parsed.obj) THEN <<EEmitRecord("wbMessage", parsed.obj)>>
         ELSE <<>>
    ELSE IF message.type = "binary" THEN <<ELog>> ELSE <<>>

\* the frames the transport delivers
Utf8(toks) == [type |-> "utf8", utf8Data |-> toks]
InboundTags == {"lights", "alarm", "all", "thermostat"}
InboundFrames ==
    {Utf8(Stringify(("t" :> Str(tag)) @@ ("p" :> Str("x")))) : tag \in InboundTags}
    \cup {Utf8(<<"{", "t">>),
          [type |-> "binary", utf8Data |-> <<>>]}

\* the messages the caller passes to sendWB
SendMsgs == {("t" :> Str("alarm")) @@ ("p" :> Str("on"))}

\* the operation or event handled last: its name, the client or connection it
\* is about and, for 'message', the frame delivered
NoMessage == [type |-> "", utf8Data |-> <<>>]
Last(op, id, message) == [op |-> op, id |-> id, message |-> message, from |-> ""]
\* a timer fired: the handler that had scheduled it
LastTimer(id, from) == [op |-> "timer", id |-> id, message |-> NoMessage, from |-> from]

(***************************************************************************)
(* Initial state: the manager as new IoTransitWB(input) leaves it.         *)
(***************************************************************************)
InitWith(inputs) ==
    /\ \E arg \in inputs :
          /\ Constructor(arg).thrown = ""
          /\ options = Constructor(arg).options
          /\ input = arg
    /\ wb = 0
    /\ clients = <<>>
    /\ conns = <<>>
    /\ websocketBridgeConnected = FALSE
    /\ timers = <<>>
    /\ last = Last("new", 0, NoMessage)
    /\ fx = <<>>
    /\ origTarget = <<>>

Init == InitWith(Inputs)

(***************************************************************************)
(* connect (): a new WebSocketClient replaces this.wb, a connection        *)
(* attempt is issued on it and the handlers are registered on it.          *)
(***************************************************************************)
Connect ==
    /\ Len(clients) < MaxClients
    /\ LET prefix == WebSocketPrefix
           i == Len(clients) + 1
           target == ConnectTarget(prefix)
       IN  /\ clients' = Append(clients, [connection |-> 0, attempts |-> <<target>>,
                                          webSocketPrefix |-> prefix])
           /\ wb' = i
           /\ fx' = <<EAttempt(i, target)>>
           /\ last' = Last("connect", i, NoMessage)
           /\ origTarget' = IF origTarget = <<>> THEN target ELSE origTarget
    /\ UNCHANGED <<options, input, conns, websocketBridgeConnected, timers>>

(***************************************************************************)
(* The transport reports 'connectFailed' on client i.                      *)
(***************************************************************************)
ConnectFailed ==
    \E i \in 1..Len(clients) :
        /\ clients[i].attempts # <<>>
        /\ clients' = [clients EXCEPT ![i].attempts = Tail(@)]
        /\ websocketBridgeConnected' = FALSE
        /\ timers' = timers \o FailedReconnect(clients[i].webSocketPrefix)
        /\ fx' = OnConnectFailedEffects(clients[i].webSocketPrefix)
        /\ last' = Last("connectFailed", i, NoMessage)
        /\ UNCHANGED <<options, input, wb, conns, origTarget>>

(***************************************************************************)
(* The transport reports 'connect' on client i with a new connection.      *)
(***************************************************************************)
ConnectOk ==
    \E i \in 1..Len(clients) :
        /\ clients[i].attempts # <<>>
        /\ Len(conns) < MaxConns
        /\ LET c == Len(conns) + 1
               effects == OnConnectEffects(c)
           IN  /\ conns' = Append(conns, [client |-> i, connected |-> TRUE,
                                          first |-> FirstOf(WritesTo(effects, c))])
               /\ clients' = [clients EXCEPT ![i].attempts = Tail(@),
                                             ![wb].connection = c]
               /\ fx' = effects
               /\ last' = Last("connectOk", c, NoMessage)
        /\ websocketBridgeConnected' = TRUE
        /\ UNCHANGED <<options, input, wb, timers, origTarget>>

\* an 'error' event that also tears the connection down
TransportError_Drops ==
    \E c \in 1..Len(conns) :
        /\ conns[c].connected
        /\ conns' = [conns EXCEPT ![c].connected = FALSE]
        /\ websocketBridgeConnected' = FALSE
        /\ fx' = OnErrorEffects(c)
        /\ last' = Last("error", c, NoMessage)
        /\ UNCHANGED <<options, input, wb, clients, timers, origTarget>>

(***************************************************************************)
(* The transport reports 'error' on the open connection c.                 *)
(***************************************************************************)
TransportError ==
    \E c \in 1..Len(conns) :
        /\ conns[c].connected
        /\ fx' = OnErrorEffects(c)
        /\ last' = Last("error", c, NoMessage)
        /\ UNCHANGED <<options, input, wb, clients, conns, websocketBridgeConnected, timers, origTarget>>

(***************************************************************************)
(* The transport reports 'close' on the open connection c.                 *)
(***************************************************************************)
TransportClose ==
    \E c \in 1..Len(conns) :
        /\ conns[c].connected
        /\ conns' = [conns EXCEPT ![c].connected = FALSE]
        /\ websocketBridgeConnected' = FALSE
        /\ timers' = timers \o CloseReconnect(clients[conns[c].client].webSocketPrefix)
        /\ fx' = OnCloseEffects(clients[conns[c].client].webSocketPrefix)
        /\ last' = Last("close", c, NoMessage)
        /\ UNCHANGED <<options, input, wb, clients, origTarget>>

(***************************************************************************)
(* The transport delivers a frame on the open connection c.                *)
(***************************************************************************)
Message ==
    \E c \in 1..Len(conns) : \E message \in InboundFrames :
        /\ conns[c].connected
        /\ fx' = OnMessageEffects(message)
        /\ last' = Last("message", c, message)
        /\ UNCHANGED <<options, input, wb, clients, conns, websocketBridgeConnected, timers, origTarget>>

\* a disconnect() that also cancels the pending reconnect timers
Disconnect_CancelsTimers ==
    /\ last' = Last("disconnect", 0, NoMessage)
    /\ fx' = <<>>
    /\ timers' = <<>>
    /\ UNCHANGED <<options, input, wb, clients, conns, websocketBridgeConnected, origTarget>>

(***************************************************************************)
(* disconnect (): drops this.wb.connection when websocketBridgeConnected.  *)
(* drop() closes the connection and emits its 'close' event, which runs    *)
(* the 'close' handler.                                                    *)
(***************************************************************************)
Disconnect ==
    /\ last' = Last("disconnect", 0, NoMessage)
    /\ IF ~websocketBridgeConnected
       THEN /\ fx' = <<>>
            /\ UNCHANGED <<conns, websocketBridgeConnected, timers>>
       ELSE IF clients[wb].connection = 0
       THEN \* this.wb.connection is undefined: reading .drop throws
            /\ fx' = <<EThrow("TypeError")>>
            /\ UNCHANGED <<conns, websocketBridgeConnected, timers>>
       ELSE LET c == clients[wb].connection
                prefix == clients[conns[c].client].webSocketPrefix
            IN  IF conns[c].connected
                THEN /\ conns' = [conns EXCEPT ![c].connected = FALSE]
                     /\ websocketBridgeConnected' = FALSE
                     /\ timers' = timers \o CloseReconnect(prefix)
                     /\ fx' = OnCloseEffects(prefix)
                ELSE /\ fx' = <<>>
                     /\ UNCHANGED <<conns, websocketBridgeConnected, timers>>
    /\ UNCHANGED <<options, input, wb, clients, origTarget>>

(***************************************************************************)
(* sendWB (sendMsg)                                                        *)
(***************************************************************************)
SendWB ==
    \E sendMsg \in SendMsgs :
        /\ last' = Last("sendWB", 0, NoMessage)
        /\ IF wb = 0
           THEN \* this.wb is undefined: reading .connection throws
                /\ fx' = <<EThrow("TypeError")>>
                /\ UNCHANGED conns
           ELSE LET c == clients[wb].connection IN
                IF c # 0 /\ conns[c].connected
                THEN /\ fx' = <<EWrite(c, Stringify(sendMsg))>>
                     /\ conns' = [conns EXCEPT ![c].first =
                                      IF @ = <<>> THEN Stringify(sendMsg) ELSE @]
                ELSE /\ fx' = <<EEmit("sendError", "websocket bridge not connected")>>
                     /\ UNCHANGED conns
        /\ UNCHANGED <<options, input, wb, clients, websocketBridgeConnected, timers, origTarget>>

(***************************************************************************)
(* A reconnect timer fires: this.wb.connect(...) on the current client.    *)
(***************************************************************************)
TimerFire ==
    /\ timers # <<>>
    /\ LET target == TimerTarget(Head(timers)) IN
          /\ clients' = [clients EXCEPT ![wb].attempts = Append(@, target)]
          /\ fx' = <<EAttempt(wb, target)>>
    /\ timers' = Tail(timers)
    /\ last' = LastTimer(wb, Head(timers).from)
    /\ UNCHANGED <<options, input, wb, conns, websocketBridgeConnected, origTarget>>

Next ==
    \/ Connect
    \/ ConnectFailed
    \/ ConnectOk
    \/ TransportError
    \/ TransportClose
    \/ Message
    \/ Disconnect
    \/ SendWB
    \/ TimerFire

Spec == Init /\ [][Next]_vars

(***************************************************************************)
(* The manager against a transport that fails every connection attempt.   *)
(* Every attempt is answered and every timer fires.                        *)
(***************************************************************************)
NextFailing ==
    \/ Connect
    \/ ConnectFailed
    \/ Disconnect
    \/ SendWB
    \/ TimerFire

InitFailing == InitWith(Inputs \cup RetryInputs)

SpecFailing ==
    InitFailing /\ [][NextFailing]_vars /\ WF_vars(ConnectFailed) /\ WF_vars(TimerFire)

(***************************************************************************)
(* Construction from any argument, followed by the caller's operations    *)
(* when a manager exists.  A constructor that throws leaves no object to   *)
(* call connect(), disconnect() or sendWB() on.                            *)
(***************************************************************************)
InitConfig ==
    /\ \E arg \in ConfigInputs :
          /\ input = arg
          /\ options = Constructor(arg).options
          /\ fx = IF Constructor(arg).thrown = "" THEN <<>>
                  ELSE <<EThrow(Constructor(arg).thrown)>>
    /\ wb = 0
    /\ clients = <<>>
    /\ conns = <<>>
    /\ websocketBridgeConnected = FALSE
    /\ timers = <<>>
    /\ last = Last("new", 0, NoMessage)
    /\ origTarget = <<>>

Constructed == ~(last.op = "new" /\ Throws(fx))

\* this.options = options: the manager's options and the caller's record are
\* one object
CallerRecord == options

NextConfig ==
    \/ Constructed /\ Connect
    \/ Constructed /\ ConnectFailed
    \/ Constructed /\ Disconnect
    \/ Constructed /\ SendWB
    \/ Constructed /\ TimerFire

SpecConfig == InitConfig /\ [][NextConfig]_vars

(***************************************************************************)
(* Properties.                                                             *)
(***************************************************************************)
AutoReconnect == Truthy(options["autoReconnect"])
OpenConns == {c \in 1..Len(conns) : conns[c].connected}
NoConnectionOpen == OpenConns = {}

\* C1: whenever no transport connection is open, a call to sendWB emits
\* exactly one sendError event and writes nothing to any connection.
C1_SendWhileClosed ==
    (last.op = "sendWB" /\ NoConnectionOpen)
        => /\ Cardinality(Emits(fx, "sendError")) = 1
           /\ Kinds(fx, "write") = {}

\* C2: none of connect(), disconnect() and sendWB() raises an exception to
\* the caller, in any reachable state.
C2_EntryPointsNeverThrow ==
    last.op \in {"connect", "disconnect", "sendWB"} => ~Throws(fx)

\* the authapp frame expected for the configured user, pass and accept values
RECURSIVE QuotedTags(_)
QuotedTags(xs) ==
    IF xs = <<>> THEN <<>> ELSE <<"\"", Head(xs).s, "\"">> \o QuotedTags(Tail(xs))
ExpectedAuthRequest ==
    <<"{", "t", "\"", "authapp", "\"", "p", "{",
      "user", "\"", options["authUser"].s, "\"",
      "pass", "\"", options["authPass"].s, "\"",
      "accept", "[">> \o QuotedTags(options["acceptTags"].items) \o <<"]", "}", "}">>
\* C3: each time the transport reports a successful connect, the manager
\* writes exactly one authentication request, carrying the configured user,
\* pass and accept values, on the new connection, and does so before it emits
\* the connection event.
C3_AuthBeforeConnection ==
    last.op = "connectOk"
        => /\ Len(fx) = 2
           /\ fx[1] = EWrite(last.id, ExpectedAuthRequest)
           /\ fx[2].k = "emit" /\ fx[2].on = "manager" /\ fx[2].ev = "connection"
           /\ conns[last.id].connected
           /\ conns[last.id].first = ExpectedAuthRequest
C3_Witness ==
    /\ last.op = "connectOk"
    /\ last.id >= 2
    /\ ~conns[1].connected
    /\ AutoReconnect

\* the text frame and the decoded record of a message with the given tag
TaggedFrame(tag) == Utf8(<<"{", "t", "\"", tag, "\"", "p", "\"", "x", "\"", "}">>)
TaggedRecord(tag) == ("t" :> Str(tag)) @@ ("p" :> Str("x"))
AcceptTagNames == {options["acceptTags"].items[i].s : i \in 1..Len(options["acceptTags"].items)}
FailedWithRetry ==
    /\ Len(fx) = 2
    /\ fx[1].k = "emit" /\ fx[1].on = "manager" /\ fx[1].ev = "connectionFailed"
    /\ fx[2] = ETimer
    /\ timers # <<>>
\* C5: with autoReconnect = true and a transport that fails every attempt,
\* each connectFailed produces one connectionFailed event followed by exactly
\* one scheduled retry, and after every failed attempt another attempt is
\* eventually issued.
C5_RetryForever ==
    /\ []((AutoReconnect /\ last.op = "connectFailed") => FailedWithRetry)
    /\ ((AutoReconnect /\ last.op = "connectFailed")
            ~> (last.op = "timer" /\ Kinds(fx, "attempt") # {}))
C5_Witness ==
    /\ AutoReconnect
    /\ last.op = "timer"
    /\ last.from = "connectFailed"
    /\ clients[wb].attempts # <<>>

\* C6: with autoReconnect = true, a close reported on a live connection
\* makes the manager emit connectionClose, set websocketBridgeConnected to
\* false and schedule exactly one retry; when the retry fires it issues a
\* fresh connection attempt to the target of the original attempt.
C6_CloseSchedulesRetry ==
    AutoReconnect
        => /\ last.op = "close"
                => /\ Len(fx) = 2
                   /\ fx[1] = EEmit("connectionClose", "websocket bridge connection closed")
                   /\ fx[2] = ETimer
                   /\ ~websocketBridgeConnected
                   /\ timers # <<>>
                   /\ timers[Len(timers)].from = "close"
           /\ (last.op = "timer" /\ last.from = "close")
                => /\ fx = <<EAttempt(wb, origTarget)>>
                   /\ clients[wb].attempts # <<>>
                   /\ clients[wb].attempts[Len(clients[wb].attempts)] = origTarget
C6_Witness ==
    /\ AutoReconnect
    /\ last.op = "timer"
    /\ last.from = "close"
    /\ \E c \in 1..Len(conns) : ~conns[c].connected

\* C7: with autoReconnect = false, a connection attempt is issued only by a
\* connect() call: after a connect failure or a close no reconnect timer is
\* scheduled and no further attempt occurs.
C7_NoRetryWithoutAutoReconnect ==
    ~AutoReconnect
        => /\ timers = <<>>
           /\ Kinds(fx, "timer") = {}
           /\ Kinds(fx, "attempt") # {} => last.op = "connect"
           /\ \A i \in 1..Len(clients) : Len(clients[i].attempts) <= 1
C7_Witness ==
    /\ ~AutoReconnect
    /\ last.op = "close"
    /\ NoConnectionOpen
    /\ \A i \in 1..Len(clients) : clients[i].attempts = <<>>

\* C8: with autoReconnect = false, once disconnect() has been called and the
\* resulting close events have been delivered, no transport connection of the
\* manager is open.
C8_DisconnectClosesAll ==
    (~AutoReconnect /\ last.op = "disconnect") => NoConnectionOpen

\* C9: whenever the transport reports an error on the live connection, the
\* manager emits a connectionError event to the subscribers registered on
\* the manager.
C9_ErrorReachesSubscribers ==
    last.op = "error" => Cardinality(Emits(fx, "connectionError")) = 1

\* C10: in every reachable state the manager has at most one open transport
\* connection.
C10_SingleOpenConnection == Cardinality(OpenConns) <= 1


\* the record the caller passed, and the argument gave no identity
Supplied == IF input.v.ty \in {"object", "array"} THEN input.o ELSE EmptyObj
NoIdentity ==
    \/ input.v.ty \in {"null", "undefined"}
    \/ input.v.ty = "object" /\ ~HasOwnProperty(input.o, "appletId")

\* C11: constructing with null or undefined, or with a record that lacks
\* appletId, fails with an error, leaves no manager and never issues a
\* connection attempt.
C11_NoIdentityFails ==
    NoIdentity
        => /\ last.op = "new"
           /\ Throws(fx)
           /\ wb = 0
           /\ clients = <<>>
           /\ timers = <<>>
C11_Witness ==
    /\ input.v.ty = "object"
    /\ ~HasOwnProperty(input.o, "appletId")
    /\ HasOwnProperty(input.o, "authUser")
    /\ fx = <<EThrow("mandatory appletId not provided in config")>>

\* C12: for a record that has an appletId, acceptTags is [appletId] when
\* accepts is absent, [accepts] when accepts is a string, and the given list
\* when accepts is a list.
C12_AcceptTagsFromAccepts ==
    (input.v.ty = "object" /\ HasOwnProperty(input.o, "appletId"))
        => /\ ~HasOwnProperty(input.o, "accepts")
                => Get(options, "acceptTags") = Arr(<<input.o["appletId"]>>)
           /\ (HasOwnProperty(input.o, "accepts") /\ input.o["accepts"].ty = "string")
                => Get(options, "acceptTags") = Arr(<<input.o["accepts"]>>)
           /\ (HasOwnProperty(input.o, "accepts") /\ input.o["accepts"].ty = "array")
                => Get(options, "acceptTags") = input.o["accepts"]
C12_Witness ==
    /\ input.v.ty = "object"
    /\ Get(input.o, "appletId") = Str("lights")
    /\ Get(input.o, "accepts") = Str("alarm")
    /\ Get(options, "acceptTags") = Arr(<<Str("alarm")>>)
    /\ clients # <<>>

\* C13: whenever construction succeeds, the configuration has a non-empty
\* appletId and a defined, non-empty acceptTags list.
C13_IdentityAndTagsNonEmpty ==
    Constructed
        => /\ Get(options, "appletId").ty \notin {"undefined", "null"}
           /\ Get(options, "appletId") # Str("")
           /\ Get(options, "acceptTags").ty = "array"
           /\ Get(options, "acceptTags").items # <<>>

OrFields ==
    {"authUser", "authPass", "websocketBridgeUri", "websocketBridgePort",
     "websocketBridgeSubProtocol", "websocketBridgeOrigin", "reconnectionTimer"}
OwnFields == {"autoReconnect", "secureWebSocket"}
DefaultOf(k) ==
    CASE k = "authUser" -> Str("api1")
      [] k = "authPass" -> Str("external")
      [] k = "websocketBridgeUri" -> Str("127.0.0.1")
      [] k = "websocketBridgePort" -> Num("444")
      [] k = "websocketBridgeSubProtocol" -> Str("wb.iotransit.net")
      [] k = "websocketBridgeOrigin" -> Str("bridge")
      [] k = "autoReconnect" -> Bool(TRUE)
      [] k = "reconnectionTimer" -> Num("5000")
      [] k = "secureWebSocket" -> Bool(TRUE)

\* C14 as stated: each of the nine fields equals the value the caller
\* supplied when the field is supplied, whatever that value is, and the fixed
\* default otherwise.
C14_SuppliedWhateverItIs ==
    Constructed
        => \A k \in OrFields \cup OwnFields :
              options[k] = IF HasOwnProperty(Supplied, k) THEN Supplied[k] ELSE DefaultOf(k)

\* C14 as amended: each of authUser, authPass, websocketBridgeUri,
\* websocketBridgePort, websocketBridgeSubProtocol, websocketBridgeOrigin and
\* reconnectionTimer equals the supplied value when that value is truthy and
\* the fixed default otherwise; autoReconnect and secureWebSocket equal the
\* supplied value whenever the property is present, and the default
\* otherwise; regardless of which other fields are supplied.
C14_TruthyOrDefault ==
    Constructed
        => /\ \A k \in OrFields :
                options[k] = IF Truthy(Get(Supplied, k)) THEN Supplied[k] ELSE DefaultOf(k)
           /\ \A k \in OwnFields :
                options[k] = IF HasOwnProperty(Supplied, k) THEN Supplied[k] ELSE DefaultOf(k)
C14_Witness ==
    /\ Constructed
    /\ Get(Supplied, "websocketBridgePort") = Num("0")
    /\ Get(Supplied, "websocketBridgeUri") = Str("bridge.local")
    /\ options["websocketBridgePort"] = Num("444")
    /\ options["websocketBridgeUri"] = Str("bridge.local")
    /\ options["authUser"] = Str("api1")

\* C15: constructing a manager from a record leaves the caller's record
\* unchanged.
C15_CallerRecordUnchanged ==
    (Constructed /\ input.v.ty = "object") => CallerRecord = input.o

\* C16: at most one reconnect timer is pending and at most one connection
\* attempt is in flight at a time.
C16_OneTimerOneAttempt ==
    /\ Len(timers) <= 1
    /\ \A i \in 1..Len(clients) : Len(clients[i].attempts) <= 1
    /\ \A i, k \in 1..Len(clients) :
          i # k => (clients[i].attempts = <<>> \/ clients[k].attempts = <<>>)

\* C17: a transport error event on a live connection leaves
\* websocketBridgeConnected, the stored connection handle and the connection
\* unchanged and schedules no reconnect timer.
C17_ErrorLeavesConnection ==
    [][last'.op = "error"
          => /\ UNCHANGED <<websocketBridgeConnected, wb, clients, conns, timers>>
             /\ conns'[last'.id].connected
             /\ Kinds(fx', "timer") = {}]_vars
C17_Witness ==
    /\ last.op = "error"
    /\ websocketBridgeConnected
    /\ clients[wb].connection = last.id
    /\ conns[last.id].connected

\* C18: disconnect() called while websocketBridgeConnected is false drops
\* nothing, emits nothing and cancels neither the attempt in flight nor the
\* pending reconnect timer.
C18_DisconnectWhileDown ==
    [][(~websocketBridgeConnected /\ last'.op = "disconnect")
          => /\ UNCHANGED <<websocketBridgeConnected, wb, clients, conns, timers>>
             /\ fx' = <<>>]_vars
C18_Witness ==
    /\ last.op = "disconnect"
    /\ ~websocketBridgeConnected
    /\ AutoReconnect
    /\ timers # <<>>
    /\ \E i \in 1..Len(clients) : clients[i].attempts # <<>>

\* C19: websocketBridgeConnected = true implies that this.wb.connection is
\* defined and is the most recently opened connection, and
\* websocketBridgeConnected = false implies that no connection is open.
C19_FlagMatchesConnection ==
    /\ websocketBridgeConnected
          => /\ wb # 0
             /\ clients[wb].connection # 0
             /\ clients[wb].connection = Len(conns)
    /\ ~websocketBridgeConnected => NoConnectionOpen

\* C20: on every connection the authentication request is the first frame
\* written: it is written before the connection event is emitted, and sendWB
\* writes only to a connection that already carries it.
C20_AuthIsFirstFrame ==
    /\ \A c \in 1..Len(conns) : conns[c].first = ExpectedAuthRequest
    /\ last.op = "connectOk"
          => \A e \in Emits(fx, "connection") :
                \E w \in Kinds(fx, "write") :
                    w < e /\ fx[w] = EWrite(last.id, ExpectedAuthRequest)
    /\ last.op = "sendWB"
          => \A w \in Kinds(fx, "write") :
                /\ fx[w].data # ExpectedAuthRequest
                /\ conns[fx[w].id].first = ExpectedAuthRequest
C20_Witness ==
    /\ last.op = "sendWB"
    /\ \E w \in Kinds(fx, "write") : fx[w].id >= 2 /\ ~conns[1].connected

====
